---------------------------- MODULE Spec2Model ----------------------------
(***************************************************************************)
(* The combinatoric game engine of combinatoric_game.py: the breadth-first *)
(* builder of the move graph (_graph) and the backward-induction solver    *)
(* that grows the optimal-move graph (_optimal_move_graph), in its         *)
(* one-player and two-player variants, run on abstract rule sets and on    *)
(* the repository's rule sets (TicTacToe, TrianglePegBoard).               *)
(*                                                                         *)
(* A Python Optional is a set with at most one element: None is {} and a   *)
(* value v is {v}.  A Python tuple is a sequence.  A one-player node is a  *)
(* state; a two-player node is the pair <<player, state>>.                 *)
(***************************************************************************)
EXTENDS Integers, Sequences, FiniteSets, TLC

VARIABLES
  game,                \* the rule set: [kind, players, N]
  keep_all_solutions,  \* the constructor's flag, None until it is read
  order,               \* how sets and adjacency views are iterated
  pc,                  \* position in __init__
  graph,               \* self._graph: [node, succ, pred]
  optimal_move_graph,  \* self._optimal_move_graph: [node, succ, pred]
  queue,               \* the deque of _create_game_graph
  new_solved_nodes,    \* the frontier of _find_optimal_solution
  candidate_nodes,     \* what is left of the for loop over candidate_nodes
  err,                 \* the exception that ended the run, None if none
  next_states_of,      \* the rule set's answers: node -> next states
  terminal_of,         \* the rule set's answers: node -> final score / winner
  run,                 \* 1 in the first construction, 2 in a repeated one
  first,               \* outcome and labels of the first construction
  calls                \* how often the builder enqueued, expanded, tested a node

vars == <<game, keep_all_solutions, order, pc, graph, optimal_move_graph,
          queue, new_solved_nodes, candidate_nodes, err, next_states_of,
          terminal_of, run, first, calls>>

-----------------------------------------------------------------------------
(* Bounds of the abstract rule sets *)

\* the most nodes in the move graph of an abstract one-player rule set
MaxNodes1 == 3

\* the most nodes in the move graph of an abstract two-player rule set
MaxNodes2 == 4

\* the largest final score of an abstract one-player rule set
MaxScore == 1

None == {}

EmptyFcn == [x \in {} |-> {}]

AbstractStates1 == {<<k>> : k \in 0..(MaxNodes1 - 1)}

AbstractStates2 == {<<k>> : k \in 0..(MaxNodes2 \div 2)}

Scores == 0..MaxScore

-----------------------------------------------------------------------------
(* Iteration orders *)

Perms(S) == {f \in [1..Cardinality(S) -> S] : \A i, j \in 1..Cardinality(S) : f[i] = f[j] => i = j}

RECURSIVE LexLess(_, _)
LexLess(a, b) ==
  IF a = <<>> THEN b # <<>>
  ELSE IF b = <<>> THEN FALSE
  ELSE IF Head(a) # Head(b) THEN Head(a) < Head(b)
  ELSE LexLess(Tail(a), Tail(b))

NodeLess(a, b) ==
  IF game.players = 1 THEN LexLess(a, b)
  ELSE a[1] < b[1] \/ (a[1] = b[1] /\ LexLess(a[2], b[2]))

Sorted(S) ==
  LET ranked == {<<Cardinality({y \in S : NodeLess(y, x)}) + 1, x>> : x \in S}
  IN  [i \in 1..Cardinality(S) |-> (CHOOSE p \in ranked : p[1] = i)[2]]

Reverse(s) == [i \in 1..Len(s) |-> s[Len(s) + 1 - i]]

Iterations(S) ==
  IF order = "any" THEN Perms(S)
  ELSE IF order = "asc" THEN {Sorted(S)}
  ELSE {Reverse(Sorted(S))}

-----------------------------------------------------------------------------
(* The graph engine (networkx.DiGraph) as the engine uses it: node maps a   *)
(* node to its attribute (None, or the label given with value= / winner=),  *)
(* succ and pred map it to its successors and predecessors.                 *)

EmptyGraph == [node |-> EmptyFcn, succ |-> EmptyFcn, pred |-> EmptyFcn]

Nodes(g) == DOMAIN g.node

\* add_node(n, **attr) for every n of attrs: a new node gets its attribute,
\* a node already there keeps its edges and has its attribute updated
\* a faulty add_node, one that replaces the attribute of a node it has
AddNodesOverwriting(g, attrs) ==
  LET new == (DOMAIN attrs) \ (DOMAIN g.node)
  IN  [node |-> attrs @@ g.node,
       succ |-> g.succ @@ [n \in new |-> {}],
       pred |-> g.pred @@ [n \in new |-> {}]]

AddNodes(g, attrs) ==
  LET new == (DOMAIN attrs) \ (DOMAIN g.node)
  IN  [node |-> [n \in DOMAIN attrs |->
                   IF attrs[n] = None /\ n \in DOMAIN g.node THEN g.node[n] ELSE attrs[n]]
                @@ g.node,
       succ |-> g.succ @@ [n \in new |-> {}],
       pred |-> g.pred @@ [n \in new |-> {}]]

AddNode(g, n, attr) == AddNodes(g, (n :> attr))

\* add_edge(u, v) for every v of vs
AddEdgesFrom(g, u, vs) ==
  IF vs = {} THEN g
  ELSE LET h == AddNodes(g, [n \in {u} \cup vs |-> None])
       IN  [node |-> h.node,
            succ |-> [h.succ EXCEPT ![u] = @ \cup vs],
            pred |-> [v \in vs |-> h.pred[v] \cup {u}] @@ h.pred]

AddEdge(g, u, v) == AddEdgesFrom(g, u, {v})

Value(opt) == CHOOSE v \in opt : TRUE

\* graph.node[n]['value'] or graph.node[n]['winner']
Label(g, n) == Value(g.node[n])

-----------------------------------------------------------------------------
(* TicTacToe (tic_tac_toe.py).  An array is a function on index pairs. *)

BoardSizes == {1, 2, 3}

Index(N) == (0..(N - 1)) \X (0..(N - 1))

StateArr(N, state) == [ij \in Index(N) |-> state[ij[1] * N + ij[2] + 1]]

Ravel(N, arr) == [k \in 1..(N * N) |-> arr[<<(k - 1) \div N, (k - 1) % N>>]]

Rot90(N, arr) == [ij \in Index(N) |-> arr[<<ij[2], N - 1 - ij[1]>>]]

RECURSIVE Rot90Times(_, _, _)
Rot90Times(N, arr, n) == IF n = 0 THEN arr ELSE Rot90(N, Rot90Times(N, arr, n - 1))

Transpose(N, arr) == [ij \in Index(N) |-> arr[<<ij[2], ij[1]>>]]

MinTuple(S) == CHOOSE t \in S : \A u \in S : t = u \/ LexLess(t, u)

StateTuple(N, state_arr) ==
  LET rotations == {Rot90Times(N, state_arr, n) : n \in 0..3}
      all       == rotations \cup {Transpose(N, arr) : arr \in rotations}
  IN  MinTuple({Ravel(N, rt) : rt \in all})

ReturnInitialStateArr(N) == [ij \in Index(N) |-> 0]

TTTReturnInitialState(N) == StateTuple(N, ReturnInitialStateArr(N))

ReturnNextStateArrs(N, player, state_arr) ==
  {[state_arr EXCEPT ![ij] = player] : ij \in {c \in Index(N) : state_arr[c] = 0}}

TTTReturnNextStates(N, player, state) ==
  {StateTuple(N, arr) : arr \in ReturnNextStateArrs(N, player, StateArr(N, state))}

\* a faulty test, the lines looked for being those of the other player
GetWinnerOfOpponent(N, player, next_state_arr) ==
  LET other == IF player = 2 THEN 1 ELSE 2
  IN  IF \E j \in 0..(N - 1) : \A i \in 0..(N - 1) : next_state_arr[<<i, j>>] = other
        THEN {other}
      ELSE IF \E i \in 0..(N - 1) : \A j \in 0..(N - 1) : next_state_arr[<<i, j>>] = other
        THEN {other}
      ELSE IF \A i \in 0..(N - 1) : next_state_arr[<<i, i>>] = other
        THEN {other}
      ELSE IF \A i \in 0..(N - 1) : next_state_arr[<<i, N - 1 - i>>] = other
        THEN {other}
      ELSE IF ~ \E ij \in Index(N) : next_state_arr[ij] = 0
        THEN {0}
      ELSE None

GetWinnerFromArr(N, player, next_state_arr) ==
  IF \E j \in 0..(N - 1) : \A i \in 0..(N - 1) : next_state_arr[<<i, j>>] = player
    THEN {player}
  ELSE IF \E i \in 0..(N - 1) : \A j \in 0..(N - 1) : next_state_arr[<<i, j>>] = player
    THEN {player}
  ELSE IF \A i \in 0..(N - 1) : next_state_arr[<<i, i>>] = player
    THEN {player}
  ELSE IF \A i \in 0..(N - 1) : next_state_arr[<<i, N - 1 - i>>] = player
    THEN {player}
  ELSE IF ~ \E ij \in Index(N) : next_state_arr[ij] = 0
    THEN {0}
  ELSE None

\* a faulty test, a full board without a line not seen as a draw
TTTGetWinnerWithoutDraw(N, player, next_state) ==
  GetWinnerFromArr(N, player, StateArr(N, next_state)) \ {0}

TTTGetWinner(N, player, next_state) == GetWinnerFromArr(N, player, StateArr(N, next_state))

-----------------------------------------------------------------------------
(* TrianglePegBoard (triangle_peg_board.py).  The values of the expression  *)
(* of _return_initial_state carry their Python type.                        *)

PegSizes == {1, 2}

PyTuple(s) == [type |-> "tuple", seq |-> s, int |-> 0]

PyInt(n) == [type |-> "int", seq |-> <<>>, int |-> n]

PyTypeError == [type |-> "TypeError", seq |-> <<>>, int |-> 0]

RECURSIVE Repeat(_, _)
Repeat(s, n) == IF n <= 0 THEN <<>> ELSE s \o Repeat(s, n - 1)

PyMul(a, b) ==
  IF a.type = "TypeError" \/ b.type = "TypeError" THEN PyTypeError
  ELSE IF a.type = "tuple" /\ b.type = "int" THEN PyTuple(Repeat(a.seq, b.int))
  ELSE IF a.type = "int" /\ b.type = "tuple" THEN PyTuple(Repeat(b.seq, a.int))
  ELSE IF a.type = "int" /\ b.type = "int" THEN PyInt(a.int * b.int)
  ELSE PyTypeError

PyDiv(a, b) ==
  IF a.type = "int" /\ b.type = "int" THEN PyInt(a.int \div b.int)
  ELSE PyTypeError

PyAdd(a, b) ==
  IF a.type = "tuple" /\ b.type = "tuple" THEN PyTuple(a.seq \o b.seq)
  ELSE IF a.type = "int" /\ b.type = "int" THEN PyInt(a.int + b.int)
  ELSE PyTypeError

PegReturnInitialState(N) ==
  PyAdd(PyTuple(<<0>>),
        PyDiv(PyMul(PyMul(PyTuple(<<1>>), PyInt(N)), PyAdd(PyInt(N), PyInt(1))), PyInt(2)))

-----------------------------------------------------------------------------
(* The rule set behind the abstract methods.  An abstract rule set answers  *)
(* a question the first time it is asked and repeats the answer after that; *)
(* b is what the builder holds: graph, optimal_move_graph, queue and the    *)
(* answers next_states_of and terminal_of given so far.                     *)

NextPlayer(player) == IF player = 2 THEN 1 ELSE 2

ReturnInitialState ==
  IF game.kind = "ttt" THEN PyTuple(TTTReturnInitialState(game.N))
  ELSE IF game.kind = "peg" THEN PegReturnInitialState(game.N)
  ELSE PyTuple(<<0>>)

ReturnNextStates(b, node) ==
  IF node \in DOMAIN b.next_states_of THEN {b.next_states_of[node]}
  ELSE IF game.kind = "ttt" THEN {TTTReturnNextStates(game.N, node[1], node[2])}
  ELSE IF game.players = 1
    THEN {S \in SUBSET AbstractStates1 : Cardinality(Nodes(b.graph) \cup S) <= MaxNodes1}
  ELSE {S \in SUBSET AbstractStates2 :
          Cardinality(Nodes(b.graph) \cup {<<NextPlayer(node[1]), s>> : s \in S}) <= MaxNodes2}

GetFinalScore(b, next_node) ==
  IF next_node \in DOMAIN b.terminal_of THEN {b.terminal_of[next_node]}
  ELSE {None} \cup {{v} : v \in Scores}

GetWinner(b, player, next_node) ==
  IF next_node \in DOMAIN b.terminal_of THEN {b.terminal_of[next_node]}
  ELSE IF game.kind = "ttt" THEN {TTTGetWinner(game.N, player, next_node[2])}
  ELSE {None, {0}, {1}, {2}}

Terminal(b, player, next_node) ==
  IF game.players = 1 THEN GetFinalScore(b, next_node) ELSE GetWinner(b, player, next_node)

Answers(b, player, new) ==
  LET opts == [n \in new |-> Terminal(b, player, n)]
  IN  IF \A n \in new : Cardinality(opts[n]) = 1
        THEN {[n \in new |-> Value(opts[n])]}
        ELSE {f \in [new -> UNION {opts[n] : n \in new}] : \A n \in new : f[n] \in opts[n]}

-----------------------------------------------------------------------------
(* CombinatoricGame.__init__ *)

NoCalls == [enqueued |-> EmptyFcn, expanded |-> EmptyFcn, tested |-> EmptyFcn]

\* the counts f with one more call for every node of S
Called(f, S) == [n \in S |-> (IF n \in DOMAIN f THEN f[n] ELSE 0) + 1] @@ f

NoGame == [kind |-> "abstract", players |-> 1, N |-> 0]

Constructed ==
  /\ keep_all_solutions = None
  /\ pc = "create"
  /\ graph = EmptyGraph
  /\ optimal_move_graph = EmptyGraph
  /\ queue = <<>>
  /\ new_solved_nodes = {}
  /\ candidate_nodes = <<>>
  /\ err = None
  /\ next_states_of = EmptyFcn
  /\ terminal_of = EmptyFcn
  /\ run = 1
  /\ first = None
  /\ calls = NoCalls

Init ==
  /\ game \in {[NoGame EXCEPT !.players = p] : p \in {1, 2}}
  /\ order = "any"
  /\ Constructed

InitGames ==
  /\ game \in {[kind |-> "ttt", players |-> 2, N |-> n] : n \in BoardSizes}
              \cup {[kind |-> "peg", players |-> 1, N |-> n] : n \in PegSizes}
  /\ order \in {"asc", "desc"}
  /\ Constructed

\* a faulty raise, the two counts exchanged in the message
RaiseCountsExchanged(type, size, solved) ==
  /\ pc' = "raised"
  /\ err' = {[type |-> type, graph_size |-> solved, number_solved |-> size]}

Raise(type, size, solved) ==
  /\ pc' = "raised"
  /\ err' = {[type |-> type, graph_size |-> size, number_solved |-> solved]}

-----------------------------------------------------------------------------
(* _create_game_graph *)

CreateGameGraph ==
  /\ pc = "create"
  /\ LET r == ReturnInitialState
         start == IF game.players = 1 THEN r.seq ELSE <<1, r.seq>>
     IN  IF r.type # "tuple"
           THEN /\ Raise(r.type, 0, 0)
                /\ UNCHANGED <<graph, queue, calls>>
           ELSE /\ queue' = <<start>>
                /\ graph' = AddNode(graph, start, None)
                /\ calls' = [calls EXCEPT !.enqueued = Called(@, {start})]
                /\ pc' = "build"
                /\ err' = err
  /\ UNCHANGED <<game, keep_all_solutions, order, optimal_move_graph, new_solved_nodes,
                 candidate_nodes, next_states_of, terminal_of, run, first>>

\* "points is not None" / "winner in {0, 1, 2}"
IsLabel(opt) == IF game.players = 1 THEN opt # None ELSE opt \in {{0}, {1}, {2}}

Builder ==
  [graph |-> graph, optimal_move_graph |-> optimal_move_graph, queue |-> queue,
   next_states_of |-> next_states_of, terminal_of |-> terminal_of, calls |-> calls]

\* a faulty pass, one that enqueues the last only of the new nodes
ExpandWithLastAppended(b, node, next_states, next_nodes, answers, appended) ==
  LET last == IF appended = <<>> THEN <<>> ELSE <<appended[Len(appended)]>>
  IN  [graph |-> AddEdgesFrom(b.graph, node, next_nodes),
       optimal_move_graph |->
         AddNodes(b.optimal_move_graph,
                  [n \in {m \in DOMAIN answers : IsLabel(answers[m])} |-> answers[n]]),
       queue |-> Tail(b.queue) \o last,
       next_states_of |-> b.next_states_of @@ (node :> next_states),
       terminal_of |-> b.terminal_of @@ answers,
       calls |-> [enqueued |-> Called(b.calls.enqueued, {last[i] : i \in 1..Len(last)}),
                  expanded |-> Called(b.calls.expanded, {node}),
                  tested   |-> Called(b.calls.tested, DOMAIN answers)]]

\* a faulty pass, one that adds no edge to a terminal next node
ExpandWithoutTerminalEdges(b, node, next_states, next_nodes, answers, appended) ==
  [graph |-> AddEdgesFrom(b.graph, node,
                          {n \in next_nodes : n \notin DOMAIN answers \/ ~ IsLabel(answers[n])}),
   optimal_move_graph |->
     AddNodes(b.optimal_move_graph,
              [n \in {m \in DOMAIN answers : IsLabel(answers[m])} |-> answers[n]]),
   queue |-> Tail(b.queue) \o appended,
   next_states_of |-> b.next_states_of @@ (node :> next_states),
   terminal_of |-> b.terminal_of @@ answers,
   calls |-> [enqueued |-> Called(b.calls.enqueued, {appended[i] : i \in 1..Len(appended)}),
              expanded |-> Called(b.calls.expanded, {node}),
              tested   |-> Called(b.calls.tested, DOMAIN answers)]]

\* one pass of the while loop, with the rule set answering next_states and
\* answers and the new non-terminal nodes appended in the order appended
ExpandWith(b, node, next_states, next_nodes, answers, appended) ==
  [graph |-> AddEdgesFrom(b.graph, node, next_nodes),
   optimal_move_graph |->
     AddNodes(b.optimal_move_graph,
              [n \in {m \in DOMAIN answers : IsLabel(answers[m])} |-> answers[n]]),
   queue |-> Tail(b.queue) \o appended,
   next_states_of |-> b.next_states_of @@ (node :> next_states),
   terminal_of |-> b.terminal_of @@ answers,
   calls |-> [enqueued |-> Called(b.calls.enqueued, {appended[i] : i \in 1..Len(appended)}),
              expanded |-> Called(b.calls.expanded, {node}),
              tested   |-> Called(b.calls.tested, DOMAIN answers)]]

\* faulty next nodes, the player of the node kept
NextNodesOfSamePlayer(node, next_states) ==
  IF game.players = 1 THEN next_states
  ELSE {<<node[1], next_state>> : next_state \in next_states}

\* (next_player, next_state) for every next_state of next_states
NextNodes(node, next_states) ==
  IF game.players = 1 THEN next_states
  ELSE {<<NextPlayer(node[1]), next_state>> : next_state \in next_states}

\* a faulty visited test, one that takes every next node for a new one
NewNodesUnchecked(b, next_nodes) == next_nodes

\* the next nodes that pass "if next_state in self._graph: continue"
NewNodes(b, next_nodes) == next_nodes \ Nodes(b.graph)

ExpandResults(b) ==
  LET node == Head(b.queue)
      player == IF game.players = 1 THEN 1 ELSE node[1]
  IN  UNION {
        LET next_nodes == NextNodes(node, next_states)
            new == NewNodes(b, next_nodes)
        IN  UNION {
              {ExpandWith(b, node, next_states, next_nodes, answers, appended) :
                 appended \in Iterations({n \in new : ~ IsLabel(answers[n])})} :
              answers \in Answers(b, player, new)} :
        next_states \in ReturnNextStates(b, node)}

Built(r) ==
  /\ graph' = r.graph
  /\ optimal_move_graph' = r.optimal_move_graph
  /\ queue' = r.queue
  /\ next_states_of' = r.next_states_of
  /\ terminal_of' = r.terminal_of
  /\ calls' = r.calls
  /\ UNCHANGED <<game, keep_all_solutions, order, pc, new_solved_nodes, candidate_nodes,
                 err, run, first>>

Expand ==
  /\ pc = "build"
  /\ queue # <<>>
  /\ \E r \in ExpandResults(Builder) : Built(r)

\* k passes of the while loop
RECURSIVE ExpandMany(_, _)
ExpandMany(b, k) ==
  IF k = 0 THEN b
  ELSE IF k = 1 THEN Value(ExpandResults(b))
  ELSE LET half == ExpandMany(b, k \div 2)
       IN  IF half.queue = <<>> THEN half ELSE ExpandMany(half, k - (k \div 2))

\* the passes of the while loop for the nodes now in the queue
ExpandLevel ==
  /\ pc = "build"
  /\ queue # <<>>
  /\ Built(ExpandMany(Builder, Len(queue)))

-----------------------------------------------------------------------------
(* _get_optimal_move and _get_optimal_next_nodes.  A result is               *)
(* [exc, label, move_to_node]: exc names the exception raised, if any, and   *)
(* label and move_to_node are the returned pair, None for a Python None.     *)

Deferred == [exc |-> None, label |-> None, move_to_node |-> None]

Resolved(label, move_to_node) == [exc |-> None, label |-> {label}, move_to_node |-> {move_to_node}]

Raised(type) == [exc |-> {type}, label |-> None, move_to_node |-> None]

\* a faulty choice, the least value in place of the greatest
RECURSIVE MinByValue(_, _, _, _)
MinByValue(omg, succs, i, best) ==
  IF i > Len(succs) THEN best
  ELSE MinByValue(omg, succs, i + 1,
                  IF Label(omg, succs[i]) < Label(omg, best) THEN succs[i] ELSE best)

\* max(..., key=val) over the successors in iteration order: the first maximum
RECURSIVE MaxByValue(_, _, _, _)
MaxByValue(omg, succs, i, best) ==
  IF i > Len(succs) THEN best
  ELSE MaxByValue(omg, succs, i + 1,
                  IF Label(omg, succs[i]) > Label(omg, best) THEN succs[i] ELSE best)

\* a faulty choice, the best of the successors solved so far
OnePlayerGetMoveAmongSolved(omg, node, succs) ==
  LET IsSolved(succ_node) == succ_node \in Nodes(omg)
      solved == SelectSeq(succs, IsSolved)
  IN  IF solved = <<>> THEN Deferred
      ELSE LET best == MaxByValue(omg, solved, 2, solved[1])
           IN  Resolved(Label(omg, best), best)

\* a faulty choice, the first successor iterated taken for the best
OnePlayerGetFirstMove(omg, node, succs) ==
  IF \E k \in 1..Len(succs) : succs[k] \notin Nodes(omg) THEN Deferred
  ELSE IF succs = <<>> THEN Raised("ValueError")
  ELSE Resolved(Label(omg, succs[1]), succs[1])

OnePlayerGetOptimalMove(omg, node, succs) ==
  IF \E k \in 1..Len(succs) : succs[k] \notin Nodes(omg) THEN Deferred
  ELSE IF succs = <<>> THEN Raised("ValueError")
  ELSE LET best == MaxByValue(omg, succs, 2, succs[1])
       IN  Resolved(Label(omg, best), best)

\* a faulty lookup, one that always falls back on the default
BestMoveForgotten(best_move, default) == default

\* best_move.get('winner', default)
BestMoveGet(best_move, default) ==
  IF "winner" \in DOMAIN best_move THEN best_move["winner"] ELSE default

BestMove(winner, succ_node) ==
  [k \in {"winner", "move_to_node"} |-> IF k = "winner" THEN winner ELSE succ_node]

RECURSIVE TwoPlayerScan(_, _, _, _, _, _)
TwoPlayerScan(omg, succs, i, player, best_move, unlabeled_successors) ==
  IF i > Len(succs)
    THEN IF unlabeled_successors THEN Deferred
         ELSE IF DOMAIN best_move = {} THEN Raised("KeyError")
         ELSE Resolved(best_move["winner"], best_move["move_to_node"])
  ELSE LET succ_node == succs[i]
           other_player == NextPlayer(player)
       IN  IF succ_node \in Nodes(omg)
             THEN LET winner == Label(omg, succ_node)
                  IN  IF winner = player THEN Resolved(winner, succ_node)
                      ELSE IF winner = 0
                        THEN TwoPlayerScan(omg, succs, i + 1, player,
                                           BestMove(winner, succ_node), unlabeled_successors)
                      ELSE IF BestMoveGet(best_move, other_player) = other_player
                        THEN TwoPlayerScan(omg, succs, i + 1, player,
                                           BestMove(winner, succ_node), unlabeled_successors)
                      ELSE TwoPlayerScan(omg, succs, i + 1, player, best_move,
                                         unlabeled_successors)
             ELSE TwoPlayerScan(omg, succs, i + 1, player, best_move, TRUE)

\* a faulty scan, one that passes over the successors not yet solved
TwoPlayerGetMoveAmongSolved(omg, node, succs) ==
  LET IsSolved(succ_node) == succ_node \in Nodes(omg)
  IN  TwoPlayerScan(omg, SelectSeq(succs, IsSolved), 1, node[1], EmptyFcn, FALSE)

TwoPlayerGetOptimalMove(omg, node, succs) ==
  TwoPlayerScan(omg, succs, 1, node[1], EmptyFcn, FALSE)

GetOptimalMove(omg, node, succs) ==
  IF game.players = 1 THEN OnePlayerGetOptimalMove(omg, node, succs)
  ELSE TwoPlayerGetOptimalMove(omg, node, succs)

\* a faulty selection, every successor taken for an optimal one
AllNextNodes(omg, node) == graph.succ[node]

GetOptimalNextNodes(omg, node) ==
  {succ_node \in graph.succ[node] : Label(omg, node) = Label(omg, succ_node)}

-----------------------------------------------------------------------------
(* _find_optimal_solution *)

FindOptimalSolution ==
  /\ pc = "build"
  /\ queue = <<>>
  /\ new_solved_nodes' = Nodes(optimal_move_graph)
  /\ pc' = "while"
  /\ UNCHANGED <<game, keep_all_solutions, order, graph, optimal_move_graph, queue,
                 candidate_nodes, err, next_states_of, terminal_of, run, first,
                 calls>>

\* a faulty candidate rule, the predecessors of one newly solved node only
CandidateNodesOfOne ==
  IF new_solved_nodes = {} THEN {}
  ELSE {pred_node \in graph.pred[CHOOSE node \in new_solved_nodes : TRUE] :
          pred_node \notin Nodes(optimal_move_graph)}

\* a faulty candidate rule, the solved predecessors taken as well
CandidateNodesSolvedToo == UNION {graph.pred[node] : node \in new_solved_nodes}

\* faulty candidates, every node not yet solved
CandidateNodesUnsolved == Nodes(graph) \ Nodes(optimal_move_graph)

CandidateNodes ==
  {pred_node \in UNION {graph.pred[node] : node \in new_solved_nodes} :
     pred_node \notin Nodes(optimal_move_graph)}

Round ==
  /\ pc = "while"
  /\ new_solved_nodes # {}
  /\ \E iteration \in Iterations(CandidateNodes) :
       /\ candidate_nodes' = iteration
       /\ pc' = IF iteration = <<>> THEN "while" ELSE "for"
  /\ new_solved_nodes' = {}
  /\ UNCHANGED <<game, keep_all_solutions, order, graph, optimal_move_graph, queue,
                 err, next_states_of, terminal_of, run, first,
                 calls>>

Solver ==
  [optimal_move_graph |-> optimal_move_graph, new_solved_nodes |-> new_solved_nodes,
   exc |-> None]

\* a faulty pass, its edge drawn to the first successor iterated
CandidateWithFirstSuccessor(s, candidate_node, succs) ==
  LET r == GetOptimalMove(s.optimal_move_graph, candidate_node, succs)
  IN  IF r.exc # None THEN [s EXCEPT !.exc = r.exc]
      ELSE IF IsLabel(r.label)
        THEN [optimal_move_graph |->
                AddEdge(AddNode(s.optimal_move_graph, candidate_node, r.label),
                        candidate_node, succs[1]),
              new_solved_nodes |-> s.new_solved_nodes \cup {candidate_node},
              exc |-> None]
      ELSE s

\* one pass of the for loop, with the successors iterated in the order succs
CandidateWith(s, candidate_node, succs) ==
  LET r == GetOptimalMove(s.optimal_move_graph, candidate_node, succs)
  IN  IF r.exc # None THEN [s EXCEPT !.exc = r.exc]
      ELSE IF IsLabel(r.label)
        THEN [optimal_move_graph |->
                AddEdge(AddNode(s.optimal_move_graph, candidate_node, r.label),
                        candidate_node, Value(r.move_to_node)),
              new_solved_nodes |-> s.new_solved_nodes \cup {candidate_node},
              exc |-> None]
      ELSE s

CandidateResults(s, candidate_node) ==
  {CandidateWith(s, candidate_node, succs) : succs \in Iterations(graph.succ[candidate_node])}

\* the passes of the for loop for candidates[lo..hi]; an exception ends the loop
RECURSIVE CandidateMany(_, _, _, _)
CandidateMany(s, candidates, lo, hi) ==
  IF s.exc # None \/ lo > hi THEN s
  ELSE IF lo = hi THEN Value(CandidateResults(s, candidates[lo]))
  ELSE LET mid == (lo + hi) \div 2
           half == CandidateMany(s, candidates, lo, mid)
       IN  IF half.exc # None THEN half ELSE CandidateMany(half, candidates, mid + 1, hi)

Solved(r, rest) ==
  /\ IF r.exc # None
       THEN /\ Raise(Value(r.exc), 0, 0)
            /\ UNCHANGED <<optimal_move_graph, new_solved_nodes, candidate_nodes>>
       ELSE /\ optimal_move_graph' = r.optimal_move_graph
            /\ new_solved_nodes' = r.new_solved_nodes
            /\ candidate_nodes' = rest
            /\ pc' = IF rest = <<>> THEN "while" ELSE "for"
            /\ err' = err
  /\ UNCHANGED <<game, keep_all_solutions, order, graph, queue, next_states_of,
                 terminal_of, run, first,
                 calls>>

Candidate ==
  /\ pc = "for"
  /\ \E r \in CandidateResults(Solver, Head(candidate_nodes)) : Solved(r, Tail(candidate_nodes))

\* the whole for loop
Candidates ==
  /\ pc = "for"
  /\ Solved(CandidateMany(Solver, candidate_nodes, 1, Len(candidate_nodes)), <<>>)

\* the keep_all_solutions argument: a repeated construction is given the
\* argument of the first one, if that one came to read it
KeepAllSolutionsArguments ==
  IF run = 2 /\ Value(first).keep_all_solutions # None
    THEN Value(first).keep_all_solutions
    ELSE BOOLEAN

\* a faulty size check, one that never finds the graph unsolved
NotSolvedOverlooked == Cardinality(Nodes(graph)) < Cardinality(Nodes(optimal_move_graph))

\* len(self._graph) != len(self._optimal_move_graph)
NotSolved == Cardinality(Nodes(graph)) # Cardinality(Nodes(optimal_move_graph))

Check ==
  /\ pc = "while"
  /\ new_solved_nodes = {}
  /\ IF NotSolved
       THEN /\ Raise("NotSolvedException", Cardinality(Nodes(graph)),
                     Cardinality(Nodes(optimal_move_graph)))
            /\ UNCHANGED keep_all_solutions
       ELSE \E flag \in KeepAllSolutionsArguments :
              /\ keep_all_solutions' = {flag}
              /\ pc' = IF flag THEN "keep_all" ELSE "done"
              /\ err' = err
  /\ UNCHANGED <<game, order, graph, optimal_move_graph, queue, new_solved_nodes,
                 candidate_nodes, next_states_of, terminal_of, run, first,
                 calls>>

\* add_edge(node, move_to_node) for every node of the graph and every
\* move_to_node of _get_optimal_next_nodes(node), all of them nodes already
AddOptimalEdges(omg) ==
  [node |-> omg.node,
   succ |-> [node \in DOMAIN omg.succ |->
               IF node \in Nodes(graph)
                 THEN omg.succ[node] \cup GetOptimalNextNodes(omg, node)
                 ELSE omg.succ[node]],
   pred |-> [move_to_node \in DOMAIN omg.pred |->
               IF move_to_node \in Nodes(graph)
                 THEN omg.pred[move_to_node] \cup
                        {node \in graph.pred[move_to_node] :
                           move_to_node \in GetOptimalNextNodes(omg, node)}
                 ELSE omg.pred[move_to_node]]]

KeepAll ==
  /\ pc = "keep_all"
  /\ IF \E node \in Nodes(graph) : node \notin Nodes(optimal_move_graph)
       THEN /\ Raise("KeyError", 0, 0)
            /\ UNCHANGED optimal_move_graph
       ELSE /\ optimal_move_graph' = AddOptimalEdges(optimal_move_graph)
            /\ pc' = "done"
            /\ err' = err
  /\ UNCHANGED <<game, keep_all_solutions, order, graph, queue, new_solved_nodes,
                 candidate_nodes, next_states_of, terminal_of, run, first,
                 calls>>

-----------------------------------------------------------------------------

Next == CreateGameGraph \/ Expand \/ FindOptimalSolution \/ Round \/ Candidate \/ Check \/ KeepAll

Spec == Init /\ [][Next]_vars

NextGames ==
  CreateGameGraph \/ ExpandLevel \/ FindOptimalSolution \/ Round \/ Candidates \/ Check \/ KeepAll

SpecGames == InitGames /\ [][NextGames]_vars

\* The same rule set constructed a second time: the rule set repeats its
\* answers (next_states_of, terminal_of), the engine starts afresh and
\* iterates in whatever order it does, and first keeps what the first
\* construction ended with.
SolveAgain ==
  /\ run = 1
  /\ pc \in {"done", "raised"}
  /\ first' = {[pc |-> pc, err |-> err, keep_all_solutions |-> keep_all_solutions,
                graph |-> graph, optimal_move_graph |-> optimal_move_graph]}
  /\ run' = 2
  /\ pc' = "create"
  /\ keep_all_solutions' = None
  /\ graph' = EmptyGraph
  /\ optimal_move_graph' = EmptyGraph
  /\ queue' = <<>>
  /\ new_solved_nodes' = {}
  /\ candidate_nodes' = <<>>
  /\ err' = None
  /\ calls' = NoCalls
  /\ UNCHANGED <<game, order, next_states_of, terminal_of>>

NextTwice == Next \/ SolveAgain

SpecTwice == Init /\ [][NextTwice]_vars

-----------------------------------------------------------------------------
(* Properties.  The nodes the rule set declared terminal are those with a   *)
(* label in terminal_of; the root is never asked about.                     *)

TerminalNodes == {n \in DOMAIN terminal_of : IsLabel(terminal_of[n])}

NonTerminalNodes == Nodes(graph) \ TerminalNodes

Succeeded == pc = "done"

NotSolvedRaised == pc = "raised" /\ \E e \in err : e.type = "NotSolvedException"

\* the nodes reached from S in at most k steps along succ
RECURSIVE ReachFrom(_, _, _)
ReachFrom(succ, S, k) ==
  IF k = 0 THEN S
  ELSE ReachFrom(succ, S \cup UNION {succ[m] : m \in S \cap DOMAIN succ}, k - 1)

MaxOf(S) == CHOOSE x \in S : \A y \in S : y <= x

\* C1: once _find_optimal_solution has passed its size check, the
\* optimal-move graph has exactly the nodes of the move graph and each of
\* them carries exactly one label, a winner in {0, 1, 2} in a two-player game.
C1_SolvedGraphIsComplete ==
  pc \in {"keep_all", "done"} =>
    /\ Nodes(optimal_move_graph) = Nodes(graph)
    /\ \A n \in Nodes(graph) :
         /\ n \in Nodes(optimal_move_graph)
         /\ Cardinality(optimal_move_graph.node[n]) = 1
         /\ optimal_move_graph.node[n] \subseteq (IF game.players = 1 THEN Int ELSE {0, 1, 2})

\* a solve that returned, of a graph with a non-terminal node besides the root
C1_Witness ==
  /\ Succeeded
  /\ Cardinality(NonTerminalNodes) >= 2
  /\ TerminalNodes # {}
  /\ Nodes(optimal_move_graph) = Nodes(graph)

LoopEndsUnsolved ==
  /\ pc = "while"
  /\ new_solved_nodes = {}
  /\ Nodes(graph) \ Nodes(optimal_move_graph) # {}

\* C2: NotSolvedException is raised exactly when the frontier loop has ended
\* with a node of the move graph missing from the optimal-move graph; it
\* carries the size of the move graph and the number of nodes solved, and
\* keep_all_solutions is not acted upon.
C2_NotSolvedExactlyWhenUnsolved ==
  /\ [](NotSolvedRaised =>
          /\ Nodes(graph) \ Nodes(optimal_move_graph) # {}
          /\ new_solved_nodes = {}
          /\ err = {[type |-> "NotSolvedException",
                     graph_size |-> Cardinality(Nodes(graph)),
                     number_solved |-> Cardinality(Nodes(optimal_move_graph))]}
          /\ keep_all_solutions = None)
  /\ [][/\ LoopEndsUnsolved => NotSolvedRaised'
        /\ NotSolvedRaised' => (LoopEndsUnsolved \/ NotSolvedRaised)
        /\ NotSolvedRaised => UNCHANGED <<pc, optimal_move_graph>>]_vars

\* NotSolvedException out of a cycle no terminal resolves, part of the graph solved
C2_Witness ==
  /\ NotSolvedRaised
  /\ \E e \in err : e.number_solved >= 1 /\ e.graph_size > e.number_solved
  /\ \E n \in Nodes(graph) \ Nodes(optimal_move_graph) : n \in ReachFrom(graph.succ, graph.succ[n], 3)

\* the minimax label of node n = (p, s) from the labels of its successors
Minimax(n) ==
  LET labels == {Label(optimal_move_graph, succ_node) : succ_node \in graph.succ[n]}
  IN  IF n[1] \in labels THEN n[1]
      ELSE IF 0 \in labels THEN 0
      ELSE NextPlayer(n[1])

\* C3: after a two-player solve that returned, every non-terminal node
\* (p, s) has successors and is labelled p if a successor is labelled p,
\* else 0 if a successor is labelled 0, else the opponent of p, whatever the
\* order of iteration was.
C3_TwoPlayerLabelsAreMinimax ==
  (Succeeded /\ game.players = 2) =>
    \A n \in NonTerminalNodes :
      /\ graph.succ[n] # {}
      /\ optimal_move_graph.node[n] = {Minimax(n)}

\* a solved two-player graph with a draw preferred to a loss at a node
\* that is not the root
C3_Witness ==
  /\ Succeeded
  /\ game.players = 2
  /\ \E n \in NonTerminalNodes :
       /\ n[1] = 2
       /\ optimal_move_graph.node[n] = {0}
       /\ \E succ_node \in graph.succ[n] :
            optimal_move_graph.node[succ_node] = {NextPlayer(n[1])}

\* C4: after a one-player solve that returned, the value of every
\* non-terminal node is the greatest value among its successors and the
\* greatest final score among the terminal nodes reachable from it, and the
\* value of a terminal node is the score _get_final_score gave it.
C4_OnePlayerValuesAreMaxima ==
  (Succeeded /\ game.players = 1) =>
    \A n \in Nodes(graph) :
      IF n \in TerminalNodes
        THEN optimal_move_graph.node[n] = terminal_of[n]
        ELSE /\ graph.succ[n] # {}
             /\ Label(optimal_move_graph, n) =
                  MaxOf({Label(optimal_move_graph, succ_node) : succ_node \in graph.succ[n]})
             /\ Label(optimal_move_graph, n) =
                  MaxOf({Value(terminal_of[t]) :
                           t \in ReachFrom(graph.succ, {n}, Cardinality(Nodes(graph)))
                                   \cap TerminalNodes})

\* a solved one-player graph where a node has successors of different values
C4_Witness ==
  /\ Succeeded
  /\ game.players = 1
  /\ \E n \in NonTerminalNodes :
       \E a, b \in graph.succ[n] :
         Label(optimal_move_graph, a) < Label(optimal_move_graph, b)

\* C5: all through the solve and after it, an edge of the optimal-move graph
\* is an edge of the move graph between two nodes of the same label, a path
\* of such edges leads from every solved node to a terminal node of its
\* label, and every solved non-terminal node has an edge going out.
C5_WitnessEdgesKeepTheLabel ==
  /\ \A u \in DOMAIN optimal_move_graph.succ :
       \A v \in optimal_move_graph.succ[u] :
         /\ u \in Nodes(graph) /\ v \in graph.succ[u]
         /\ IsLabel(optimal_move_graph.node[u])
         /\ optimal_move_graph.node[v] = optimal_move_graph.node[u]
  /\ \A n \in Nodes(optimal_move_graph) :
       /\ \E t \in ReachFrom(optimal_move_graph.succ, {n},
                              Cardinality(Nodes(optimal_move_graph))) \cap TerminalNodes :
            optimal_move_graph.node[t] = optimal_move_graph.node[n]
       /\ n \notin TerminalNodes => optimal_move_graph.succ[n] # {}

\* in the middle of a solve: a node solved through a chain of two edges,
\* another candidate still to come
C5_Witness ==
  /\ pc = "for"
  /\ \E u \in DOMAIN optimal_move_graph.succ :
       \E v \in optimal_move_graph.succ[u] : optimal_move_graph.succ[v] # {}

\* C6: after a solve that returned, without keep_all_solutions every
\* non-terminal node has exactly one edge going out in the optimal-move
\* graph and a terminal node none; with keep_all_solutions the edges going
\* out of a node lead to exactly those successors in the move graph that
\* carry the label of the node.
C6_OneEdgeOrAllOptimalEdges ==
  Succeeded =>
    \A n \in Nodes(graph) :
      IF keep_all_solutions = {TRUE}
        THEN optimal_move_graph.succ[n] =
               {succ_node \in graph.succ[n] :
                  optimal_move_graph.node[succ_node] = optimal_move_graph.node[n]}
        ELSE Cardinality(optimal_move_graph.succ[n]) = (IF n \in TerminalNodes THEN 0 ELSE 1)

\* with keep_all_solutions, a node with two edges to successors tied at its
\* label and a successor of another label left out
C6_Witness ==
  /\ Succeeded
  /\ keep_all_solutions = {TRUE}
  /\ \E n \in Nodes(graph) :
       /\ Cardinality(optimal_move_graph.succ[n]) = 2
       /\ optimal_move_graph.succ[n] # graph.succ[n]

\* C7: a second construction of the same rule set, iterating in any other
\* order, ends as the first one did, returning or raising the same
\* exception; when both return, every node has the label it had the first
\* time, and with keep_all_solutions the edges are the same too.
C7_OutcomeAndLabelsIgnoreTheOrder ==
  (run = 2 /\ pc \in {"done", "raised"}) =>
    /\ pc = Value(first).pc
    /\ {e.type : e \in err} = {e.type : e \in Value(first).err}
    /\ Succeeded =>
         /\ Nodes(graph) = Nodes(Value(first).graph)
         /\ optimal_move_graph.node = Value(first).optimal_move_graph.node
         /\ keep_all_solutions = {TRUE} => optimal_move_graph = Value(first).optimal_move_graph

\* two constructions that returned with the same labels and different edges
C7_Witness ==
  /\ run = 2
  /\ Succeeded
  /\ keep_all_solutions = {FALSE}
  /\ optimal_move_graph.node = Value(first).optimal_move_graph.node
  /\ optimal_move_graph.succ # Value(first).optimal_move_graph.succ

\* C8: the construction of TicTacToe with N_board = 1 does not raise, and
\* when it has returned the move graph has two nodes, the root (1, (0,))
\* and its one successor (2, (1,)), a terminal node labelled 1; the root is
\* labelled 1 and its one edge in the optimal-move graph leads there.
C8_OneByOneIsWonByPlayerOne ==
  (game.kind = "ttt" /\ game.N = 1) =>
    /\ pc # "raised"
    /\ Succeeded =>
         /\ Nodes(graph) = {<<1, <<0>>>>, <<2, <<1>>>>}
         /\ graph.succ[<<1, <<0>>>>] = {<<2, <<1>>>>}
         /\ TerminalNodes = {<<2, <<1>>>>}
         /\ optimal_move_graph.node[<<2, <<1>>>>] = {1}
         /\ optimal_move_graph.node[<<1, <<0>>>>] = {1}
         /\ optimal_move_graph.succ[<<1, <<0>>>>] = {<<2, <<1>>>>}

\* TicTacToe with N_board = 1 constructed, with keep_all_solutions
C8_Witness ==
  /\ game.kind = "ttt" /\ game.N = 1
  /\ Succeeded
  /\ keep_all_solutions = {TRUE}
  /\ <<1, <<0>>>> \in Nodes(optimal_move_graph)

\* C9: the construction of TicTacToe with N_board = 3 does not raise, and
\* when it has returned the root (1, empty board) is labelled 0, a draw.
C9_ThreeByThreeIsADraw ==
  (game.kind = "ttt" /\ game.N = 3) =>
    /\ pc # "raised"
    /\ Succeeded =>
         /\ <<1, <<0, 0, 0, 0, 0, 0, 0, 0, 0>>>> \in Nodes(optimal_move_graph)
         /\ optimal_move_graph.node[<<1, <<0, 0, 0, 0, 0, 0, 0, 0, 0>>>>] = {0}

\* TicTacToe with N_board = 3 constructed: all 765 boards up to symmetry
\* are nodes, the root among the solved ones
C9_Witness ==
  /\ game.kind = "ttt" /\ game.N = 3
  /\ Succeeded
  /\ Cardinality(Nodes(graph)) = 765
  /\ <<1, <<0, 0, 0, 0, 0, 0, 0, 0, 0>>>> \in Nodes(optimal_move_graph)

\* C10: the construction of TrianglePegBoard with N_base = 1 does not
\* raise, and when it has returned the root (0, 1) is the one node of the
\* move graph and is labelled -1.
C10_PegBoardOfOneIsSolved ==
  (game.kind = "peg" /\ game.N = 1) =>
    /\ pc # "raised"
    /\ Succeeded =>
         /\ Nodes(graph) = {<<0, 1>>}
         /\ <<0, 1>> \in Nodes(optimal_move_graph)
         /\ optimal_move_graph.node[<<0, 1>>] = {-1}

\* the candidate of the coming pass of the for loop has a successor that is
\* not in the optimal-move graph
CandidateHasUnsolvedSuccessor ==
  /\ pc = "for"
  /\ graph.succ[Head(candidate_nodes)] \ Nodes(optimal_move_graph) # {}

\* C11 as stated: in the two-player solver a candidate with a successor that
\* is not in the optimal-move graph is never added to it in that pass,
\* whatever the labels of its solved successors.
C11_UnsolvedSuccessorAlwaysDefers ==
  [][(game.players = 2 /\ CandidateHasUnsolvedSuccessor) =>
       Head(candidate_nodes) \notin Nodes(optimal_move_graph')]_vars

\* C11 as amended: in the two-player solver a candidate (p, s) with a
\* successor that is not in the optimal-move graph is added to it in that
\* pass only if one of its solved successors is labelled p, and then with
\* the label p and an edge to such a successor; otherwise the pass leaves
\* the optimal-move graph as it was.
C11_UnsolvedSuccessorDefersUnlessWon ==
  [][(game.players = 2 /\ CandidateHasUnsolvedSuccessor) =>
       LET c == Head(candidate_nodes)
           won == {succ_node \in graph.succ[c] \cap Nodes(optimal_move_graph) :
                     optimal_move_graph.node[succ_node] = {c[1]}}
       IN  IF won # {}
             THEN /\ c \in Nodes(optimal_move_graph')
                  /\ optimal_move_graph'.node[c] = {c[1]}
                  /\ \E succ_node \in won : optimal_move_graph'.succ[c] = {succ_node}
             ELSE optimal_move_graph' = optimal_move_graph]_vars

\* a two-player node solved as won by its player while one of its
\* successors is still unsolved
C11_Witness ==
  /\ game.players = 2
  /\ pc \in {"for", "while"}
  /\ \E n \in Nodes(optimal_move_graph) \ TerminalNodes :
       /\ optimal_move_graph.node[n] = {n[1]}
       /\ graph.succ[n] \ Nodes(optimal_move_graph) # {}

\* C12: in the one-player solver a pass of the for loop adds its candidate
\* to the optimal-move graph exactly when all successors of the candidate
\* are in it already, and nothing else; so a solved non-terminal node never
\* has an unsolved successor; and a round takes for candidates every
\* unsolved node with a successor among the newly solved ones, the nodes
\* deferred before included.
C12_OnePlayerSolvesAfterAllSuccessors ==
  /\ [](game.players = 1 =>
          \A n \in Nodes(optimal_move_graph) \ TerminalNodes :
            graph.succ[n] \subseteq Nodes(optimal_move_graph))
  /\ [][/\ (game.players = 1 /\ pc = "for") =>
            /\ Nodes(optimal_move_graph') \ Nodes(optimal_move_graph)
                 \subseteq {Head(candidate_nodes)}
            /\ Head(candidate_nodes) \in Nodes(optimal_move_graph')
                 <=> graph.succ[Head(candidate_nodes)] \subseteq Nodes(optimal_move_graph)
        /\ (game.players = 1 /\ pc = "while" /\ new_solved_nodes # {}) =>
            /\ optimal_move_graph' = optimal_move_graph
            /\ \A n \in Nodes(graph) \ Nodes(optimal_move_graph) :
                 graph.succ[n] \cap new_solved_nodes # {}
                   => \E i \in 1..Len(candidate_nodes') : candidate_nodes'[i] = n]_vars

\* a one-player node deferred in the round that ends, with one successor
\* solved before and the other in this round, to be examined again
C12_Witness ==
  /\ game.players = 1
  /\ pc = "while"
  /\ \E n \in Nodes(graph) \ Nodes(optimal_move_graph) :
       /\ graph.succ[n] \cap new_solved_nodes # {}
       /\ graph.succ[n] \cap (Nodes(optimal_move_graph) \ new_solved_nodes) # {}
       /\ graph.succ[n] \subseteq Nodes(optimal_move_graph)

\* what is left to do in the frontier loop: the nodes still unsolved or in
\* the frontier, and after them the candidates of the round
LoopMeasure ==
  (Cardinality(Nodes(graph) \ Nodes(optimal_move_graph)) + Cardinality(new_solved_nodes))
    * (Cardinality(Nodes(graph)) + 1)
  + Len(candidate_nodes)

\* C13: the frontier loop terminates.  A pass of the for loop uses up a
\* candidate and puts into the next frontier only a node it has just added
\* to the optimal-move graph, so a round with a non-empty next frontier has
\* enlarged the optimal-move graph; a round empties the frontier and takes
\* unsolved nodes for candidates, none twice; so every step that stays in
\* the loop lowers LoopMeasure, the for loop is entered only with a
\* candidate to take, and what ends the run, cycles and unsolvable nodes
\* included, is the return or NotSolvedException.
C13_FrontierLoopTerminates ==
  /\ [][/\ pc = "for" =>
            /\ Len(candidate_nodes') < Len(candidate_nodes)
            /\ new_solved_nodes \subseteq new_solved_nodes'
            /\ (new_solved_nodes' \ new_solved_nodes) \cap Nodes(optimal_move_graph) = {}
            /\ Nodes(optimal_move_graph') =
                 Nodes(optimal_move_graph) \cup (new_solved_nodes' \ new_solved_nodes)
        /\ (pc = "while" /\ new_solved_nodes # {}) =>
            /\ new_solved_nodes' = {}
            /\ \A i, j \in 1..Len(candidate_nodes') :
                 /\ candidate_nodes'[i] \in Nodes(graph) \ Nodes(optimal_move_graph)
                 /\ candidate_nodes'[i] = candidate_nodes'[j] => i = j
        /\ pc \in {"while", "for"} =>
            /\ pc' \in {"while", "for"} => LoopMeasure' < LoopMeasure
            /\ pc' \in {"while", "for", "keep_all", "done", "raised"}
            /\ pc' = "raised" => NotSolvedRaised']_vars
  /\ [](pc = "for" => candidate_nodes # <<>>)

\* a solve that went through two rounds and then stalled on a cycle
C13_Witness ==
  /\ NotSolvedRaised
  /\ Nodes(optimal_move_graph) \ TerminalNodes # {}
  /\ \E n \in Nodes(graph) \ Nodes(optimal_move_graph) :
       n \in ReachFrom(graph.succ, graph.succ[n], Cardinality(Nodes(graph)))

\* the move graph has no cycle and every node without successors is terminal
WellFounded ==
  /\ \A n \in Nodes(graph) :
       n \notin ReachFrom(graph.succ, graph.succ[n], Cardinality(Nodes(graph)))
  /\ \A n \in Nodes(graph) : graph.succ[n] = {} => n \in TerminalNodes

\* the labels in the optimal-move graph suffice for _get_optimal_move to
\* resolve the unsolved node n
Resolvable(n) ==
  /\ graph.succ[n] # {}
  /\ \/ graph.succ[n] \subseteq Nodes(optimal_move_graph)
     \/ /\ game.players = 2
        /\ \E succ_node \in graph.succ[n] \cap Nodes(optimal_move_graph) :
             optimal_move_graph.node[succ_node] = {n[1]}

\* C14: when the move graph as built has no cycle and all its nodes
\* without successors are terminal, the solve does not raise: between
\* rounds every unsolved node that could be resolved has a successor in
\* the frontier and so is a candidate of the next round, and the frontier is
\* empty only when every node is solved.
C14_WellFoundedGraphIsSolved ==
  (pc \in {"while", "for", "keep_all", "done", "raised"} /\ WellFounded) =>
    /\ pc # "raised"
    /\ pc = "while" =>
         /\ \A n \in Nodes(graph) \ Nodes(optimal_move_graph) :
              Resolvable(n) => graph.succ[n] \cap new_solved_nodes # {}
         /\ new_solved_nodes = {} => Nodes(optimal_move_graph) = Nodes(graph)
    /\ pc \in {"keep_all", "done"} => Nodes(optimal_move_graph) = Nodes(graph)

\* a solved graph without cycles where a node has two predecessors and a
\* node has successors solved in different rounds
C14_Witness ==
  /\ Succeeded
  /\ WellFounded
  /\ \E n \in Nodes(graph) : Cardinality(graph.pred[n]) >= 2
  /\ \E n \in NonTerminalNodes :
       /\ graph.succ[n] \cap TerminalNodes # {}
       /\ graph.succ[n] \cap NonTerminalNodes # {}

InQueue == {queue[i] : i \in 1..Len(queue)}

\* C15: of the nodes the builder has tested, one the rule set gave a score
\* or an outcome is in the optimal-move graph with that label, was never
\* enqueued or expanded and has no successors in the move graph; one it
\* gave None was enqueued and carries no label while the builder runs;
\* both are in the move graph, and the successors of an expanded node in
\* the move graph are all the next nodes the rule set gave for it.
C15_TerminalNodesAreLabelledNotEnqueued ==
  /\ \A n \in DOMAIN terminal_of :
       /\ n \in Nodes(graph)
       /\ \E u \in DOMAIN calls.expanded : n \in graph.succ[u]
       /\ IF IsLabel(terminal_of[n])
            THEN /\ n \in Nodes(optimal_move_graph)
                 /\ pc = "build" => optimal_move_graph.node[n] = terminal_of[n]
                 /\ n \notin DOMAIN calls.enqueued
                 /\ n \notin DOMAIN calls.expanded
                 /\ n \notin InQueue
                 /\ graph.succ[n] = {}
            ELSE /\ n \in DOMAIN calls.enqueued
                 /\ pc = "build" => n \notin Nodes(optimal_move_graph)
  /\ \A u \in DOMAIN calls.expanded :
       graph.succ[u] = NextNodes(u, next_states_of[u])

\* the builder at work: a terminal node labelled, a non-terminal node
\* waiting in the queue, both successors of the same expanded node
C15_Witness ==
  /\ pc = "build"
  /\ \E u \in DOMAIN calls.expanded :
       /\ graph.succ[u] \cap TerminalNodes # {}
       /\ graph.succ[u] \cap InQueue \cap DOMAIN terminal_of # {}

\* the root: start of _create_game_graph
Start == IF game.players = 1 THEN ReturnInitialState.seq ELSE <<1, ReturnInitialState.seq>>

BuilderFinished == pc \in {"while", "for", "keep_all", "done"} \/ NotSolvedRaised

\* the next nodes the rule set gives for the root and for the nodes it did
\* not declare terminal, none for a terminal node
Generated ==
  [n \in DOMAIN next_states_of \cup TerminalNodes |->
     IF n \in TerminalNodes THEN {} ELSE NextNodes(n, next_states_of[n])]

\* C16: once the builder has finished, it has asked the rule set for the
\* next states of the root and of every non-terminal node of the move graph
\* and of no other; the nodes of the move graph are exactly those reached
\* from the root by the next nodes so generated, its edges exactly the pairs
\* of an expanded node and a next node generated for it, and every node is
\* reached from the root along its edges.
C16_MoveGraphIsTheReachableGraph ==
  BuilderFinished =>
    /\ DOMAIN next_states_of = NonTerminalNodes
    /\ Start \in NonTerminalNodes
    /\ Nodes(graph) = ReachFrom(Generated, {Start}, Cardinality(Nodes(graph)))
    /\ \A n \in Nodes(graph) :
         /\ graph.succ[n] = Generated[n]
         /\ graph.pred[n] = {u \in Nodes(graph) : n \in Generated[u]}
    /\ DOMAIN graph.succ = Nodes(graph) /\ DOMAIN graph.pred = Nodes(graph)
    /\ Nodes(graph) = ReachFrom(graph.succ, {Start}, Cardinality(Nodes(graph)))

\* a finished move graph with a cycle back to the root, a node two steps
\* from the root and a node generated by two nodes
C16_Witness ==
  /\ BuilderFinished
  /\ Start \in ReachFrom(graph.succ, graph.succ[Start], Cardinality(Nodes(graph)))
  /\ Nodes(graph) \ ({Start} \cup graph.succ[Start]) # {}
  /\ \E n \in Nodes(graph) : Cardinality(graph.pred[n]) >= 2

\* C17: the builder enqueues a node at most once, expands it at most once
\* and asks the rule set at most once whether it is terminal, also for a node
\* that several nodes generate or that is generated again after it left the
\* queue; what it has enqueued, expanded or tested is a node of the graphs
\* it builds, and a node stands in the queue at most once.
C17_EachNodeIsHandledOnce ==
  /\ \A n \in DOMAIN calls.enqueued : calls.enqueued[n] = 1
  /\ \A n \in DOMAIN calls.expanded : calls.expanded[n] = 1
  /\ \A n \in DOMAIN calls.tested : calls.tested[n] = 1
  /\ \A i, j \in 1..Len(queue) : queue[i] = queue[j] => i = j
  /\ DOMAIN calls.expanded \subseteq DOMAIN calls.enqueued
  /\ pc # "create" => DOMAIN calls.enqueued \subseteq Nodes(graph)
  /\ BuilderFinished =>
       /\ DOMAIN calls.enqueued = NonTerminalNodes
       /\ DOMAIN calls.expanded = NonTerminalNodes
       /\ DOMAIN calls.tested = Nodes(graph) \ {Start}

\* the builder has finished with a node that two other nodes generated, and
\* with the root generated again by a node expanded after it
C17_Witness ==
  /\ BuilderFinished
  /\ \E n \in DOMAIN calls.enqueued :
       /\ Cardinality(graph.pred[n] \ {n}) >= 2
       /\ calls.expanded[n] = 1
  /\ graph.pred[Start] \ {Start} # {}

\* the number of cells of a TicTacToe state that hold the mark of player
Marks(state, player) == Cardinality({k \in DOMAIN state : state[k] = player})

\* the player whose mark the move from state to next_state has put down
Mover(state, next_state) ==
  CHOOSE player \in {1, 2} : Marks(next_state, player) = Marks(state, player) + 1

\* C18 as stated: along every edge ((p, s) -> (q, t)) of the TicTacToe move
\* graph, q is the player who made the move from s to t.
C18_NodePlayerIsTheMover ==
  game.kind = "ttt" =>
    \A u \in Nodes(graph) : \A v \in graph.succ[u] : v[1] = Mover(u[2], v[2])

\* C18, amended: along every edge ((p, s) -> (q, t)) of the TicTacToe move
\* graph the move from s to t is made by p, and q is the other player, the
\* one to move at t; the root is (1, initial state), and at every node the
\* player of the node is the one whose turn it is by the marks on the board.
C18_NodePlayerIsTheNextToMove ==
  game.kind = "ttt" =>
    /\ \A u \in Nodes(graph) :
         /\ u[1] \in {1, 2}
         /\ u[1] = (IF Marks(u[2], 1) = Marks(u[2], 2) THEN 1 ELSE 2)
         /\ \A v \in graph.succ[u] :
              /\ u[1] = Mover(u[2], v[2])
              /\ v[1] = NextPlayer(u[1])
              /\ v[1] # Mover(u[2], v[2])
    /\ pc # "create" => Start = <<1, PyTuple(TTTReturnInitialState(game.N)).seq>> /\ Start \in Nodes(graph)

\* the three by three game is solved, and holds a move of player 2 to a
\* node of player 1 as well as a move of player 1 to a node of player 2
C18_Witness ==
  /\ game.kind = "ttt" /\ game.N = 3 /\ pc = "done"
  /\ \E u \in Nodes(graph) : u[1] = 2 /\ \E v \in graph.succ[u] : v[1] = 1
  /\ \E v \in graph.succ[Start] : v[1] = 2

\* the optimal-move graph h holds all of g: its nodes, its edges in succ and
\* in pred, and the label of every node that g has labelled
GrownFrom(g, h) ==
  /\ Nodes(g) \subseteq Nodes(h)
  /\ \A n \in Nodes(g) :
       /\ g.succ[n] \subseteq h.succ[n]
       /\ g.pred[n] \subseteq h.pred[n]
       /\ IsLabel(g.node[n]) => h.node[n] = g.node[n]

\* C19: from the construction to the end of the run (the build, the frontier
\* loop, the keep_all_solutions pass) every step leaves in the optimal-move
\* graph the nodes and edges it had, and leaves a labelled node its label.
C19_OptimalMoveGraphOnlyGrows ==
  [][run' = run => GrownFrom(optimal_move_graph, optimal_move_graph')]_vars

\* the run has ended after the solver labelled a node and the
\* keep_all_solutions pass added edges to a graph that had some
C19_Witness ==
  /\ pc = "done" /\ keep_all_solutions = {TRUE}
  /\ \E n \in NonTerminalNodes : Cardinality(optimal_move_graph.succ[n]) >= 2
  /\ \E n \in NonTerminalNodes : n # Start /\ IsLabel(optimal_move_graph.node[n])

\* the nodes that the builder expanded and found without next states
DeadEnds == {n \in DOMAIN calls.expanded : graph.succ[n] = {}}

\* C20: a node that was not declared terminal and has no successors is
\* never a candidate of the frontier loop, so that every node given to
\* _get_optimal_move has a successor and nothing but NotSolvedException is
\* ever raised; such a node is never solved, and with such a node the run
\* does not come to succeed.
C20_DeadEndsAreLeftUnsolved ==
  /\ \A i \in 1..Len(candidate_nodes) : graph.succ[candidate_nodes[i]] # {}
  /\ \A n \in DeadEnds :
       /\ n \notin Nodes(optimal_move_graph)
       /\ \A i \in 1..Len(candidate_nodes) : candidate_nodes[i] # n
  /\ pc = "raised" => NotSolvedRaised
  /\ DeadEnds # {} => pc \notin {"keep_all", "done"}
  /\ (DeadEnds # {} /\ pc = "while" /\ new_solved_nodes = {}) => NotSolved

\* the run has ended with NotSolvedException for a graph with a dead end
\* whose predecessor has a terminal successor, and so was a candidate
C20_Witness ==
  /\ NotSolvedRaised
  /\ \E d \in DeadEnds : \E p \in graph.pred[d] : graph.succ[p] \cap TerminalNodes # {}

=============================================================================
